---- MODULE Spec2Model ----
(***************************************************************************)
(* Model of the health-checking engine of service-health-monitor:          *)
(* HealthChecker (src/app/checker.py), the background loop and the         *)
(* endpoints that call it (src/app/main.py).                               *)
(*                                                                         *)
(* One asyncio event loop runs the scheduler task and the request          *)
(* handlers.  A coroutine runs without interruption between two awaits,    *)
(* so every action below is the code between two suspension points.        *)
(***************************************************************************)
EXTENDS Integers, Sequences, FiniteSets

(* ------------------------------ bounds -------------------------------- *)
\* on-demand request handlers that can be active at the same time
NumCallers == 2
\* largest registry (number of configured services)
MaxServices == 2
\* the clock stops advancing here
MaxTime == 5
\* fan-out runs started in one behaviour
MaxRuns == 2
\* largest configured check_interval_seconds
MaxCheckInterval == 1
\* seconds by which the wall clock is set back in one behaviour
MaxBack == 1
\* seconds by which the wall clock is set forward in one behaviour
MaxForward == 1

(* ------------------------- program constants -------------------------- *)
\* self._cache_ttl = timedelta(seconds=5)
cache_ttl == 5

(* ------------------------------ values -------------------------------- *)
\* Python's None and a present optional value
None == <<>>
Some(x) == <<x>>
\* total order on optional timestamps, None first
TimeOf(opt) == IF opt = None THEN -1 ELSE opt[1]

Scheduler == 0
Callers == 1..NumCallers
Tasks == {Scheduler} \cup Callers

\* service names: n stands for the n-th name in alphabetical order
ServiceNames == 1..MaxServices

\* settings.services, a dict in insertion order: the n names of the
\* configuration in any order
Orderings(n) == {s \in [1..n -> 1..n] : \A i, j \in 1..n : s[i] = s[j] => i = j}
Registries == UNION {Orderings(n) : n \in 0..MaxServices}
\* validate_services_format rejects a configuration without any name=url item
ValidRegistries == {r \in Registries : r # <<>>}

\* what one GET can end with, as check_service distinguishes it
StatusCodes == {200, 399, 400, 500}
\* str(e) of an aiohttp.ClientError; an exception without arguments gives ""
Messages == {"", "Cannot connect to host"}
Outcomes == [kind : {"response"}, status : StatusCodes]
              \cup [kind : {"timeout"}, status : {0}]
              \cup [kind : {"client_error"}, status : {0}, message : Messages]
\* an exception that is neither asyncio.TimeoutError nor aiohttp.ClientError
OtherError == [kind |-> "other_error", status |-> 0]

VARIABLES
    services,               \* checker.services, in iteration order
    check_interval_seconds, \* settings.check_interval_seconds
    now,                    \* datetime.now(), in seconds
    cache,                  \* checker._cache
    cache_time,             \* checker._cache_time
    pc,                     \* where each task is suspended
    wake_at,                \* end of the scheduler's current sleep
    call,                   \* the check_all call each task is suspended in
    pending,                \* probes of the task's gather not yet completed
    results,                \* results of the task's gather, by position
    runs,                   \* fan-out runs started so far
    cache_run,              \* the run whose batch the cache holds (0: none)
    ev,                     \* the latest step of a check_all call
    seen,                   \* newest cache timestamp a caller has received
    applied,                \* latest application of check_service or of a view
    back,                   \* seconds the wall clock is behind the loop's clock
    installed_at,           \* loop time at which the cached batch was installed
    orphans,                \* probes still running whose gather has failed
    stopping                \* task.cancel() was called on the running scheduler

vars == <<services, check_interval_seconds, now, cache, cache_time, pc, wake_at,
          call, pending, results, runs, cache_run, ev, seen, applied,
          back, installed_at, orphans, stopping>>

\* the event loop's monotonic clock, loop.time(): the seconds that have
\* really passed, whatever was done to the wall clock
Monotonic == now + back

\* frame of a check_all call suspended in gather: its argument, the time it
\* was called at, whether the cache was stale then, and the run it started
NoCall == [force |-> FALSE, stale |-> FALSE, called_at |-> 0, run |-> 0]
Frame(force, stale, run) ==
    [force |-> force, stale |-> stale, called_at |-> now, run |-> run]

\* record of a step of check_all: what is "cached" (lines 101-103), "empty"
\* (105-106), "start" (109-112) or "done" (112-118); endpoint is the caller of
\* a call that begins in this step; batch, time and run are the returned
\* batch, its cache timestamp and the run that produced it
NoEvent == [what |-> "none", endpoint |-> "none", force |-> FALSE,
            stale |-> FALSE, batch |-> <<>>, time |-> None, run |-> 0]
Event(what, ep, force, stale, batch, time, run) ==
    [what |-> what, endpoint |-> ep, force |-> force, stale |-> stale,
     batch |-> batch, time |-> time, run |-> run]

\* record of one application of check_service or of a view: the function,
\* its input (a service name and an outcome, or a batch) and what it gave
NoApplication == [fn |-> "none"]

\* the task's position after its check_all call has returned
Resting(t) == IF t = Scheduler THEN "sleep" ELSE "idle"

\* the outcomes the probes of the model end with
ProbeOutcomes == {o \in Outcomes : o.kind = "timeout" \/ o.status = 200}

(* ---------------------------- check_service --------------------------- *)
\* HealthResult changed: a response with status 400 counts as healthy
HealthResult_HealthyAt400(name, o) ==
    [service_name  |-> name,
     is_healthy    |-> IF o.kind = "response" THEN o.status <= 400 ELSE FALSE,
     status_code   |-> IF o.kind = "response" THEN Some(o.status) ELSE None,
     error_message |-> CASE o.kind = "response" -> None
                         [] o.kind = "timeout" -> Some("Connection timeout")
                         [] OTHER -> Some(o.message)]

\* the result check_service builds for an outcome; url, response_time_ms and
\* checked_at, which no decision of the checker reads, are not carried
HealthResult(name, o) ==
    [service_name  |-> name,
     is_healthy    |-> IF o.kind = "response" THEN o.status < 400 ELSE FALSE,
     status_code   |-> IF o.kind = "response" THEN Some(o.status) ELSE None,
     error_message |-> CASE o.kind = "response" -> None
                         [] o.kind = "timeout" -> Some("Connection timeout")
                         [] OTHER -> Some(o.message)]

Put(f, i, v) == [j \in (DOMAIN f) \cup {i} |-> IF j = i THEN v ELSE f[j]]

\* check_service changed: the result is written into the cache as soon as
\* the probe completes
check_service_WritesThrough(t, i, o) ==
    /\ pc[t] = "gather"
    /\ i \in pending[t]
    /\ results' = [results EXCEPT ![t] =
                     Put(@, i, HealthResult(services[i], o))]
    /\ cache' = Put(cache, i, HealthResult(services[i], o))
    /\ pending' = [pending EXCEPT ![t] = @ \ {i}]
    /\ UNCHANGED <<stopping, back, installed_at, orphans, applied, services,
                   check_interval_seconds, now, cache_time, pc,
                   wake_at, call, runs, cache_run, ev, seen>>

\* check_service changed: the results are collected in completion order
check_service_CompletionOrder(t, i, o) ==
    /\ pc[t] = "gather"
    /\ i \in pending[t]
    /\ results' = [results EXCEPT ![t] =
                     Put(@, Cardinality(DOMAIN @) + 1,
                         HealthResult(services[i], o))]
    /\ pending' = [pending EXCEPT ![t] = @ \ {i}]
    /\ UNCHANGED <<stopping, back, installed_at, orphans, applied, services,
                   check_interval_seconds, now, cache, cache_time, pc,
                   wake_at, call, runs, cache_run, ev, seen>>

\* check_service changed: the session has no timeout, a request that gets no
\* answer never ends
check_service_NoTimeout(t, i, o) ==
    /\ o.kind # "timeout"
    /\ pc[t] = "gather"
    /\ i \in pending[t]
    /\ results' = [results EXCEPT ![t] =
                     Put(@, i, HealthResult(services[i], o))]
    /\ pending' = [pending EXCEPT ![t] = @ \ {i}]
    /\ UNCHANGED <<stopping, back, installed_at, orphans, applied, services,
                   check_interval_seconds, now, cache, cache_time, pc,
                   wake_at, call, runs, cache_run, ev, seen>>

\* one probe of task t's gather completes; gather keeps the argument order
check_service(t, i, o) ==
    /\ pc[t] = "gather"
    /\ i \in pending[t]
    /\ results' = [results EXCEPT ![t] =
                     Put(@, i, HealthResult(services[i], o))]
    /\ pending' = [pending EXCEPT ![t] = @ \ {i}]
    /\ UNCHANGED <<stopping, back, installed_at, orphans, applied, services,
                   check_interval_seconds, now, cache, cache_time, pc,
                   wake_at, call, runs, cache_run, ev, seen>>

(* ------------------------------ check_all ----------------------------- *)
\* CacheHit changed: the force argument is not consulted
CacheHit_IgnoresForce(force) ==
    /\ cache # <<>>
    /\ cache_time # None
    /\ now - cache_time[1] < cache_ttl

\* lines 101-102: the cached batch is served
CacheHit(force) ==
    /\ ~force
    /\ cache # <<>>
    /\ cache_time # None
    /\ now - cache_time[1] < cache_ttl

\* no batch is cached, or the cached batch is as old as the freshness window
Stale == cache = <<>> \/ cache_time = None \/ now - cache_time[1] >= cache_ttl

\* the scheduler sleeps again once its call has returned
Sleep(t) ==
    wake_at' = IF t = Scheduler THEN Monotonic + check_interval_seconds
               ELSE wake_at

\* the caller receives a batch with this cache timestamp
Received(time) ==
    seen' = IF TimeOf(time) > TimeOf(seen) THEN time ELSE seen

\* ReturnCached changed: a hit renews the cache timestamp
ReturnCached_Sliding(t, ep, force) ==
    /\ CacheHit(force)
    /\ cache_time' = Some(now)
    /\ ev' = Event("cached", ep, force, Stale, cache, cache_time', cache_run)
    /\ Received(cache_time')
    /\ pc' = [pc EXCEPT ![t] = Resting(t)]
    /\ Sleep(t)
    /\ UNCHANGED <<stopping, back, installed_at, orphans, applied, services,
                   check_interval_seconds, now, cache, call,
                   pending, results, runs, cache_run>>

\* lines 101-103: return self._cache
ReturnCached(t, ep, force) ==
    /\ CacheHit(force)
    /\ ev' = Event("cached", ep, force, Stale, cache, cache_time, cache_run)
    /\ Received(cache_time)
    /\ pc' = [pc EXCEPT ![t] = Resting(t)]
    /\ Sleep(t)
    /\ UNCHANGED <<stopping, back, installed_at, orphans, applied, services,
                   check_interval_seconds, now, cache, cache_time, call,
                   pending, results, runs, cache_run>>

\* ReturnEmpty changed: the empty batch is stored in the cache like any other
ReturnEmpty_StoresEmpty(t, ep, force) ==
    /\ ~CacheHit(force)
    /\ services = <<>>
    /\ cache' = <<>>
    /\ cache_time' = Some(now)
    /\ ev' = Event("empty", ep, force, Stale, <<>>, None, 0)
    /\ Received(None)
    /\ pc' = [pc EXCEPT ![t] = Resting(t)]
    /\ Sleep(t)
    /\ UNCHANGED <<stopping, back, installed_at, orphans, applied, services,
                   check_interval_seconds, now, call,
                   pending, results, runs, cache_run>>

\* lines 105-106: return []
ReturnEmpty(t, ep, force) ==
    /\ ~CacheHit(force)
    /\ services = <<>>
    /\ ev' = Event("empty", ep, force, Stale, <<>>, None, 0)
    /\ Received(None)
    /\ pc' = [pc EXCEPT ![t] = Resting(t)]
    /\ Sleep(t)
    /\ UNCHANGED <<stopping, back, installed_at, orphans, applied, services,
                   check_interval_seconds, now, cache, cache_time, call,
                   pending, results, runs, cache_run>>

\* StartGather changed: the registry is not tested for emptiness
StartGather_AnyRegistry(t, ep, force) ==
    /\ ~CacheHit(force)
    /\ runs < MaxRuns
    /\ runs' = runs + 1
    /\ call' = [call EXCEPT ![t] = Frame(force, Stale, runs + 1)]
    /\ ev' = Event("start", ep, force, Stale, <<>>, None, runs + 1)
    /\ pending' = [pending EXCEPT ![t] = 1..Len(services)]
    /\ results' = [results EXCEPT ![t] = <<>>]
    /\ pc' = [pc EXCEPT ![t] = "gather"]
    /\ UNCHANGED <<stopping, back, installed_at, orphans, applied, services,
                   check_interval_seconds, now, cache, cache_time,
                   wake_at, cache_run, seen>>

\* lines 109-112: the probes are created and the call suspends in gather
StartGather(t, ep, force) ==
    /\ ~CacheHit(force)
    /\ services # <<>>
    /\ runs < MaxRuns
    /\ runs' = runs + 1
    /\ call' = [call EXCEPT ![t] = Frame(force, Stale, runs + 1)]
    /\ ev' = Event("start", ep, force, Stale, <<>>, None, runs + 1)
    /\ pending' = [pending EXCEPT ![t] = 1..Len(services)]
    /\ results' = [results EXCEPT ![t] = <<>>]
    /\ pc' = [pc EXCEPT ![t] = "gather"]
    /\ UNCHANGED <<stopping, back, installed_at, orphans, applied, services,
                   check_interval_seconds, now, cache, cache_time,
                   wake_at, cache_run, seen>>

\* check_all from its first line to its first suspension point or return
check_all(t, ep, force) ==
    \/ ReturnCached(t, ep, force)
    \/ ReturnEmpty(t, ep, force)
    \/ StartGather(t, ep, force)

\* lines 112-118: gather has every result; the cache is replaced and returned
GatherDone(t) ==
    /\ pc[t] = "gather"
    /\ pending[t] = {}
    /\ cache' = results[t]
    /\ cache_time' = Some(now)
    /\ cache_run' = call[t].run
    /\ ev' = Event("done", "none", call[t].force, call[t].stale,
                   cache', cache_time', cache_run')
    /\ Received(cache_time')
    /\ call' = [call EXCEPT ![t] = NoCall]
    /\ results' = [results EXCEPT ![t] = <<>>]
    /\ pc' = [pc EXCEPT ![t] = Resting(t)]
    /\ installed_at' = Some(Monotonic)
    /\ Sleep(t)
    /\ UNCHANGED <<stopping, back, orphans, applied, services,
                   check_interval_seconds, now, pending, runs>>

(* ------------------------------- callers ------------------------------ *)
\* while True: await asyncio.sleep(...); await checker.check_all()
periodic_health_check ==
    /\ pc[Scheduler] = "sleep"
    /\ Monotonic >= wake_at
    /\ check_all(Scheduler, "periodic_health_check", FALSE)

\* GET /api/services
get_services(t) ==
    /\ pc[t] = "idle"
    /\ check_all(t, "get_services", FALSE)

\* POST /api/check: return await get_services()
trigger_check(t) ==
    /\ pc[t] = "idle"
    /\ check_all(t, "trigger_check", FALSE)

\* GET /metrics, line 108: results = await checker.check_all()
prometheus_metrics(t) ==
    /\ pc[t] = "idle"
    /\ check_all(t, "prometheus_metrics", FALSE)

\* a caller that forces the check: checker.check_all(force=True)
forced_check_all(t) ==
    /\ pc[t] = "idle"
    /\ check_all(t, "check_all", TRUE)

\* a second passes: datetime.now() and loop.time() advance together
Tick ==
    /\ Monotonic < MaxTime
    /\ now' = now + 1
    /\ UNCHANGED <<stopping, back, installed_at, orphans, applied, services,
                   check_interval_seconds, cache, cache_time, pc, wake_at,
                   call, pending, results, runs, cache_run, ev, seen>>

\* datetime.now() is naive local wall-clock time (lines 102 and 116): it is
\* set back at the end of daylight saving time or by a clock adjustment,
\* while loop.time() goes on
ClockSetBack(k) ==
    /\ back + k <= MaxBack
    /\ now - k >= 0
    /\ now' = now - k
    /\ back' = back + k
    /\ UNCHANGED <<stopping, installed_at, orphans, applied, services,
                   check_interval_seconds, cache, cache_time, pc, wake_at,
                   call, pending, results, runs, cache_run, ev, seen>>

\* datetime.now() is also set forward while loop.time() goes on as before:
\* at the start of daylight saving time or by a clock adjustment
ClockSetForward(k) ==
    /\ back - k >= -MaxForward
    /\ now' = now + k
    /\ back' = back - k
    /\ UNCHANGED <<stopping, installed_at, orphans, applied, services,
                   check_interval_seconds, cache, cache_time, pc, wake_at,
                   call, pending, results, runs, cache_run, ev, seen>>

(* --------------------------- specification ---------------------------- *)
InitWith(registries) ==
    /\ services \in registries
    /\ check_interval_seconds \in 1..MaxCheckInterval
    /\ now = 0
    /\ cache = <<>>
    /\ cache_time = None
    /\ pc = [t \in Tasks |-> Resting(t)]
    /\ wake_at = check_interval_seconds
    /\ call = [t \in Tasks |-> NoCall]
    /\ pending = [t \in Tasks |-> {}]
    /\ results = [t \in Tasks |-> <<>>]
    /\ runs = 0
    /\ cache_run = 0
    /\ ev = NoEvent
    /\ seen = None
    /\ applied = NoApplication
    /\ back = 0
    /\ installed_at = None
    /\ orphans = 0
    /\ stopping = FALSE

Init == InitWith(ValidRegistries)

Next ==
    \/ periodic_health_check
    \/ \E t \in Callers : get_services(t)
    \/ \E t \in Callers : trigger_check(t)
    \/ \E t \in Callers : prometheus_metrics(t)
    \/ \E t \in Callers : forced_check_all(t)
    \/ \E t \in Tasks, i \in 1..MaxServices, o \in ProbeOutcomes :
          check_service(t, i, o)
    \/ \E t \in Tasks : GatherDone(t)
    \/ Tick
    \/ \E k \in 1..MaxBack : ClockSetBack(k)

Spec == Init /\ [][Next]_vars

\* the checker under a wall clock that is set back and forward: the scheduler
\* and one request handler
NextClock ==
    \/ periodic_health_check
    \/ get_services(1)
    \/ \E t \in Tasks, i \in 1..MaxServices, o \in ProbeOutcomes :
          check_service(t, i, o)
    \/ \E t \in Tasks : GatherDone(t)
    \/ Tick
    \/ \E k \in 1..MaxBack : ClockSetBack(k)
    \/ \E k \in 1..MaxForward : ClockSetForward(k)

SpecClock == Init /\ [][NextClock]_vars

(* ----------------------- failures and shutdown ------------------------ *)
\* a probe of task t's gather ends with an exception that is neither
\* asyncio.TimeoutError nor aiohttp.ClientError: neither except clause of
\* check_service matches and the probe's task ends with the exception.
\* gather learns of it in a later iteration of the event loop, when the done
\* callback of the probe's task runs; until then gather is still waiting and
\* its other probes are still its children.
ProbeRaises(t, i) ==
    /\ pc[t] \in {"gather", "raised"}
    /\ i \in pending[t]
    /\ pc' = [pc EXCEPT ![t] = "raised"]
    /\ pending' = [pending EXCEPT ![t] = @ \ {i}]
    /\ results' = [results EXCEPT ![t] = <<>>]
    /\ UNCHANGED <<stopping, back, installed_at, orphans, applied, services,
                   check_interval_seconds, now, cache, cache_time,
                   wake_at, call, runs, cache_run, ev, seen>>

\* another probe of a gather in which a probe has raised ends, ordinarily,
\* before gather has learnt of the exception; nobody reads its result
SiblingEnds(t, i) ==
    /\ pc[t] = "raised"
    /\ i \in pending[t]
    /\ pending' = [pending EXCEPT ![t] = @ \ {i}]
    /\ UNCHANGED <<stopping, back, installed_at, orphans, applied, services,
                   check_interval_seconds, now, cache, cache_time, pc,
                   wake_at, call, results, runs, cache_run, ev, seen>>

\* line 112, gather without return_exceptions: the done callback of the
\* probe that raised puts the exception on gather's future.  The caller is
\* still suspended at line 112 and is resumed in a later iteration.  gather
\* does not cancel the other probes: they run on, and nobody reads what they
\* end with.
GatherFails(t) ==
    /\ pc[t] = "raised"
    /\ pc' = [pc EXCEPT ![t] = "raising"]
    /\ orphans' = orphans + Cardinality(pending[t])
    /\ pending' = [pending EXCEPT ![t] = {}]
    /\ UNCHANGED <<stopping, back, installed_at, applied, services,
                   check_interval_seconds, now, cache, cache_time,
                   wake_at, call, results, runs, cache_run, ev, seen>>

\* the caller is resumed at line 112 with the exception: lines 115-118 are
\* skipped and the exception leaves check_all and its caller; a request
\* handler ends with an error response, periodic_health_check ends for good
GatherRaises(t) ==
    /\ pc[t] = "raising"
    /\ ev' = Event("raised", "none", call[t].force, call[t].stale,
                   <<>>, None, call[t].run)
    /\ call' = [call EXCEPT ![t] = NoCall]
    /\ pc' = [pc EXCEPT ![t] = IF t = Scheduler THEN "dead" ELSE "idle"]
    /\ UNCHANGED <<stopping, back, installed_at, orphans, applied, services,
                   check_interval_seconds, now, cache, cache_time,
                   wake_at, pending, results, runs, cache_run, seen>>

\* a probe whose gather has failed ends, with whatever outcome
OrphanEnds ==
    /\ orphans > 0
    /\ orphans' = orphans - 1
    /\ UNCHANGED <<stopping, back, installed_at, applied, services,
                   check_interval_seconds, now, cache, cache_time, pc,
                   wake_at, call, pending, results, runs, cache_run, ev, seen>>

\* the scheduler task is suspended in asyncio.sleep or at gather
SchedulerRunning == pc[Scheduler] \in {"sleep", "gather", "raised", "raising"}

\* task.cancel() finds gather waiting for a probe that it can cancel: a probe
\* has raised, gather's done callback has not run yet, and another probe is
\* still pending.  gather's cancel() cancels that probe and returns True, so
\* no CancelledError is kept for the scheduler
CancelTakenByGather ==
    pc[Scheduler] = "raised" /\ pending[Scheduler] # {}

\* Cancel changed: a cancelled refresh stores the results it has so far
Cancel_SavesPartial ==
    /\ SchedulerRunning
    /\ ~stopping
    /\ stopping' = TRUE
    /\ IF CancelTakenByGather
         THEN /\ pending' = [pending EXCEPT ![Scheduler] = {}]
              /\ UNCHANGED <<ev, call, results, pc, cache, cache_time>>
         ELSE /\ ev' = Event("cancelled", "none", call[Scheduler].force,
                             call[Scheduler].stale, <<>>, None,
                             call[Scheduler].run)
              /\ cache' = IF pc[Scheduler] = "gather"
                            THEN results[Scheduler] ELSE cache
              /\ cache_time' = IF pc[Scheduler] = "gather"
                                 THEN Some(now) ELSE cache_time
              /\ call' = [call EXCEPT ![Scheduler] = NoCall]
              /\ pending' = [pending EXCEPT ![Scheduler] = {}]
              /\ results' = [results EXCEPT ![Scheduler] = <<>>]
              /\ pc' = [pc EXCEPT ![Scheduler] = "cancelled"]
    /\ UNCHANGED <<back, installed_at, orphans, applied, services,
                   check_interval_seconds, now, wake_at, runs,
                   cache_run, seen>>

\* lifespan, line 29: task.cancel(), called once, cancels what the scheduler
\* is waiting for: its sleep (line 20) or gather (line 112).
\*  - A gather that can cancel a pending probe does so and takes the
\*    cancellation on itself; when a probe has raised before, the done
\*    callback of that probe then puts the probe's exception on gather's
\*    future and the scheduler ends with that exception, not cancelled.
\*  - Otherwise CancelledError is thrown into the scheduler at its await: a
\*    gather that is waiting is cancelled with its probes; a gather that
\*    holds a probe's exception, or whose probes have all ended, cannot be
\*    cancelled, and the scheduler ends cancelled without ever seeing the
\*    exception.
Cancel ==
    /\ SchedulerRunning
    /\ ~stopping
    /\ stopping' = TRUE
    /\ IF CancelTakenByGather
         THEN /\ pending' = [pending EXCEPT ![Scheduler] = {}]
              /\ UNCHANGED <<ev, call, results, pc>>
         ELSE /\ ev' = Event("cancelled", "none", call[Scheduler].force,
                             call[Scheduler].stale, <<>>, None,
                             call[Scheduler].run)
              /\ call' = [call EXCEPT ![Scheduler] = NoCall]
              /\ pending' = [pending EXCEPT ![Scheduler] = {}]
              /\ results' = [results EXCEPT ![Scheduler] = <<>>]
              /\ pc' = [pc EXCEPT ![Scheduler] = "cancelled"]
    /\ UNCHANGED <<back, installed_at, orphans, applied, services,
                   check_interval_seconds, now, cache, cache_time,
                   wake_at, runs, cache_run, seen>>

\* the checker with any registry, probes that may raise, and shutdown
InitFull == InitWith(Registries)

\* trigger_check and prometheus_metrics make the same call of check_all as
\* get_services and differ from it only in the endpoint recorded in ev; one
\* of the request handlers may force its call
NextFull ==
    \/ periodic_health_check
    \/ \E t \in Callers : get_services(t)
    \/ forced_check_all(1)
    \/ \E t \in Tasks, i \in 1..MaxServices, o \in ProbeOutcomes :
          check_service(t, i, o)
    \/ \E t \in Tasks : GatherDone(t)
    \/ Tick
    \/ \E k \in 1..MaxBack : ClockSetBack(k)
    \/ \E t \in Tasks, i \in 1..MaxServices : ProbeRaises(t, i)
    \/ \E t \in Tasks, i \in 1..MaxServices : SiblingEnds(t, i)
    \/ \E t \in Tasks : GatherFails(t)
    \/ \E t \in Tasks : GatherRaises(t)
    \/ OrphanEnds
    \/ Cancel

SpecFull == InitFull /\ [][NextFull]_vars

(* ----------------------------- termination --------------------------- *)
\* the request of a probe is ended by the session's ClientTimeout
TimedOut == [kind |-> "timeout", status |-> 0]

\* the scheduler and one request handler share the checker; a probe ends with
\* a response, with its timeout, or with an exception check_service lets
\* through
NextLive ==
    \/ periodic_health_check
    \/ get_services(1)
    \/ \E t \in Tasks, i \in 1..MaxServices, o \in ProbeOutcomes :
          check_service(t, i, o)
    \/ \E t \in Tasks, i \in 1..MaxServices : ProbeRaises(t, i)
    \/ \E t \in Tasks, i \in 1..MaxServices : SiblingEnds(t, i)
    \/ \E t \in Tasks : GatherFails(t)
    \/ \E t \in Tasks : GatherRaises(t)
    \/ OrphanEnds
    \/ \E t \in Tasks : GatherDone(t)
    \/ Tick
    \/ \E k \in 1..MaxBack : ClockSetBack(k)

\* a request that is still pending is ended by its timeout (aiohttp's
\* ClientTimeout(total=request_timeout_seconds), lines 34 and 53), and the
\* event loop runs the done callback of a probe that has ended and resumes a
\* task whose gather is done
Fairness ==
    /\ \A t \in Tasks :
        /\ WF_vars(\E i \in 1..MaxServices : check_service(t, i, TimedOut))
        /\ WF_vars(GatherDone(t))
        /\ WF_vars(GatherFails(t))
        /\ WF_vars(GatherRaises(t))
    /\ WF_vars(OrphanEnds)

SpecLive == Init /\ [][NextLive]_vars /\ Fairness

(* ------------------------- results and views ------------------------- *)
\* response_time_ms values, in milliseconds
ResponseTimes == {0, 1234}

\* a result as the views read it: with its response_time_ms
Measured(r, ms) ==
    [service_name  |-> r.service_name,
     is_healthy    |-> r.is_healthy,
     status_code   |-> r.status_code,
     error_message |-> r.error_message,
     response_time_ms |-> ms]

\* the batches check_all can return for a registry: one result per service,
\* in registry order, each with any outcome and response time
BatchesOf(registry) ==
    {[i \in 1..Len(registry) |-> Measured(HealthResult(registry[i], o[i]), ms[i])] :
        o \in [1..Len(registry) -> Outcomes],
        ms \in [1..Len(registry) -> ResponseTimes]}

RECURSIVE CountHealthy(_)
\* sum(1 for r in results if r.is_healthy)
CountHealthy(batch) ==
    IF Len(batch) = 0 THEN 0
    ELSE (IF Head(batch).is_healthy THEN 1 ELSE 0) + CountHealthy(Tail(batch))

\* get_services, lines 70-77: the structured view of a batch
ServicesResponse(batch) ==
    [services  |-> batch,
     total     |-> Len(batch),
     healthy   |-> CountHealthy(batch),
     unhealthy |-> Len(batch) - CountHealthy(batch)]

\* text is a sequence of pieces: literal text of the format strings, a
\* service name, a number, or the line break that join puts between lines
Lit(text) == [kind |-> "lit", text |-> text]
NameText(name) == [kind |-> "name", name |-> name]
NumText(value) == [kind |-> "num", value |-> value]
LineBreak == [kind |-> "nl"]

\* service_up changed: every service that answered is reported as up
service_up_ReportsResponse(r) ==
    <<Lit("service_up{service=\""), NameText(r.service_name), Lit("\"} "),
      NumText(IF r.status_code # None THEN 1 ELSE 0)>>

\* f'service_up{{service="{r.service_name}"}} {status}'
service_up(r) ==
    <<Lit("service_up{service=\""), NameText(r.service_name), Lit("\"} "),
      NumText(IF r.is_healthy THEN 1 ELSE 0)>>

\* f'service_response_time_ms{{service="{r.service_name}"}} {r.response_time_ms}'
service_response_time_ms(r) ==
    <<Lit("service_response_time_ms{service=\""), NameText(r.service_name),
      Lit("\"} "), NumText(r.response_time_ms)>>

RECURSIVE Join(_)
\* "\n".join(lines)
Join(lines) ==
    IF Len(lines) = 0 THEN <<>>
    ELSE IF Len(lines) = 1 THEN lines[1]
    ELSE lines[1] \o <<LineBreak>> \o Join(Tail(lines))

\* prometheus_metrics, lines 111-133: the text exposition view of a batch
MetricsText(batch) ==
    Join(<< <<Lit("# HELP service_up Service health status (1=healthy, 0=unhealthy)")>>,
            <<Lit("# TYPE service_up gauge")>> >>
         \o [i \in 1..Len(batch) |-> service_up(batch[i])]
         \o << <<>>,
               <<Lit("# HELP service_response_time_ms Service response time in milliseconds")>>,
               <<Lit("# TYPE service_response_time_ms gauge")>> >>
         \o [i \in 1..Len(batch) |-> service_response_time_ms(batch[i])])

\* the variables of the checker, which applying a function leaves alone
checker_vars == <<services, check_interval_seconds, now, cache, cache_time, pc,
                  wake_at, call, pending, results, runs, cache_run, ev, seen,
                  back, installed_at, orphans, stopping>>

\* check_service applied to a service whose request ends with outcome o:
\* it returns a result, or the exception it does not catch leaves it
check_service_returns(name, o) ==
    /\ applied' = [fn |-> "check_service", name |-> name, outcome |-> o,
                   raised |-> o.kind = "other_error",
                   result |-> IF o.kind = "other_error" THEN None
                              ELSE Some(HealthResult(name, o))]
    /\ UNCHANGED checker_vars

\* get_services applied to the batch check_all returned
get_services_renders(batch) ==
    /\ applied' = [fn |-> "get_services", batch |-> batch,
                   response |-> ServicesResponse(batch)]
    /\ UNCHANGED checker_vars

\* prometheus_metrics applied to the batch check_all returned
prometheus_metrics_renders(batch) ==
    /\ applied' = [fn |-> "prometheus_metrics", batch |-> batch,
                   text |-> MetricsText(batch)]
    /\ UNCHANGED checker_vars

\* the functions keep no state: a behaviour applies one of them to one input
NextFunctions ==
    \/ /\ applied = NoApplication
       /\ \E name \in ServiceNames, o \in Outcomes \cup {OtherError} :
             check_service_returns(name, o)
    \/ /\ applied = NoApplication
       /\ \E batch \in BatchesOf(services) : get_services_renders(batch)
    \/ /\ applied = NoApplication
       /\ \E batch \in BatchesOf(services) : prometheus_metrics_renders(batch)

SpecFunctions == InitFull /\ [][NextFunctions]_vars

(* ------------------------------ claims -------------------------------- *)
InFlight == {t \in Tasks : pc[t] = "gather"}

\* task t's check_all call returns from gather in this step
Returns(t) == pc[t] = "gather" /\ pc'[t] # "gather"

\* a batch with one result per registered service, in registry order
BatchOfRegistry(b) ==
    /\ DOMAIN b = 1..Len(services)
    /\ \A i \in 1..Len(services) : b[i].service_name = services[i]

\* the step installs the complete batch of task t's run with its timestamp
Installs(t) ==
    /\ Returns(t)
    /\ DOMAIN results[t] = 1..Len(services)
    /\ cache' = results[t]
    /\ cache_time' = Some(now)
    /\ cache_run' = call[t].run
    /\ ev'.what = "done" /\ ev'.batch = cache' /\ ev'.time = cache_time'

\* C1: at most one fan-out run (one gather over all services) is in flight at
\* a time, for any interleaving of the scheduler and the on-demand callers.
C1_AtMostOneRunInFlight == Cardinality(InFlight) <= 1

\* C2: callers that are inside check_all(force=True) at the same time share
\* one fan-out run, so N concurrent forced calls execute exactly one run.
C2_ForcedCallsCoalesce ==
    \A t1, t2 \in Tasks :
        (t1 \in InFlight /\ t2 \in InFlight /\ call[t1].force /\ call[t2].force)
            => call[t1].run = call[t2].run

\* C3: every call check_all(force=True) starts a fresh fan-out run, is never
\* answered from the cache, and when it returns the cache holds the batch of
\* that run with the timestamp of the return, whatever the age of the batch
\* cached when it was called.
C3_ForcedCallRefreshes ==
    /\ [](ev.force => ev.what \in {"start", "done"})
    /\ [][(ev' # ev /\ ev'.force /\ ev'.what = "start") =>
             (runs' = runs + 1 /\ ev'.run = runs')]_vars
    /\ [][\A t \in Tasks : (Returns(t) /\ call[t].force) => Installs(t)]_vars

\* a forced call has returned and replaced a batch that was still inside the
\* freshness window when the call was made
C3_Witness ==
    /\ ev.what = "done" /\ ev.force /\ ~ev.stale
    /\ cache_run = ev.run /\ cache_run > 1
    /\ cache_time = Some(now)

\* C4: every POST /api/check performs a forced refresh: it is never answered
\* from the cache, it starts a new fan-out run.
C4_PostForcesRefresh == ev.endpoint = "trigger_check" => ev.what = "start"

\* C5: every wake-up of the scheduler loop executes a fan-out run, also when
\* the cache was refreshed less than one freshness window earlier.
C5_SchedulerForcesRefresh ==
    ev.endpoint = "periodic_health_check" => ev.what = "start"

\* C6: a call check_all(force=False) made while a batch is cached and younger
\* than the freshness window returns that batch with its timestamp, starts no
\* run and no probe and leaves the cache and its timestamp unchanged; two
\* such calls answered during the freshness window of one cached batch
\* return the identical batch and timestamp.
C6_CacheHitLeavesCache ==
    /\ [][(ev' # ev /\ ~ev'.force /\ ev'.what # "done" /\ ~Stale) =>
             /\ ev'.what = "cached"
             /\ ev'.batch = cache /\ ev'.time = cache_time
             /\ cache' = cache /\ cache_time' = cache_time
             /\ runs' = runs /\ pending' = pending /\ results' = results
             /\ call' = call]_vars
    /\ [][(ev.what = "cached" /\ ev'.what = "cached") =>
             (ev'.batch = ev.batch /\ ev'.time = ev.time)]_vars
    /\ [](ev.what = "cached" => (ev.batch = cache /\ ev.time = cache_time))

\* a non-forced call was answered from the cache some time after the batch
\* was produced and handed to the call that produced it
C6_Witness ==
    /\ ev.what = "cached" /\ ~ev.force
    /\ ev.time = cache_time /\ seen = cache_time
    /\ now > cache_time[1]

\* C7: check_all never returns a cached batch whose age is at or beyond the
\* freshness window: whenever a call is answered from the cache, less than
\* cache_ttl seconds have passed since that batch was installed.
C7_StaleBatchNeverServed ==
    [][(ev' # ev /\ ev'.what = "cached") =>
          (installed_at # None /\ Monotonic - installed_at[1] < cache_ttl)]_vars

\* C8: the timestamps installed in the cache never decrease, and no caller
\* receives a batch with an older timestamp than one received before.
C8_TimestampsMonotonic ==
    /\ [][TimeOf(cache_time') >= TimeOf(cache_time)]_vars
    /\ [][(ev' # ev /\ ev'.what \in {"cached", "done"}) =>
             (TimeOf(ev'.time) >= TimeOf(seen) /\ seen' = ev'.time)]_vars

\* C9: the cached batch and its timestamp are replaced as a whole: whenever
\* the batch, the timestamp or both change, the step installs the complete
\* batch of one finished run together with the time of the installation; the
\* cache is either unset or a complete batch with a timestamp.
C9_CacheReplacedAsWhole ==
    /\ [][(cache' # cache \/ cache_time' # cache_time \/ cache_run' # cache_run)
             => \E t \in Tasks : Installs(t)]_vars
    /\ [](\/ cache = <<>> /\ cache_time = None /\ cache_run = 0
          \/ DOMAIN cache = 1..Len(services) /\ cache_time # None /\ cache_run > 0)

\* a reader sees the complete previous batch while another run has every
\* result and has not yet installed them
C9_Witness ==
    /\ cache # <<>>
    /\ \E t \in Tasks : pc[t] = "gather" /\ pending[t] = {} /\ results[t] # cache

\* C10: every batch stored in the cache or returned by check_all has exactly
\* one result per registered service, with matching names, in registry
\* order, whatever the order in which the probes completed.
C10_BatchInRegistryOrder ==
    /\ cache # <<>> => BatchOfRegistry(cache)
    /\ ev.what \in {"cached", "done"} => BatchOfRegistry(ev.batch)
    /\ \A t \in Tasks : (pc[t] = "gather" /\ pending[t] = {}) =>
                           BatchOfRegistry(results[t])

\* a batch is cached and returned while the probes of another run complete
\* in the reverse of the registry order
C10_Witness ==
    /\ Len(services) >= 2 /\ services[1] > services[2]
    /\ cache # <<>> /\ ev.what = "done"
    /\ \E t \in Tasks : pc[t] = "gather" /\ pending[t] = {1}

\* C11: no exception escapes check_all: whatever a probe ends with,
\* check_service returns a result, so no call of check_all ends by raising.
C11_NoExceptionEscapes == ev.what # "raised"

\* C13: cancelling the scheduler task, wherever it is suspended, leaves the
\* cached batch and its timestamp exactly as they were, and so does every
\* step the scheduler takes after the cancellation; the cache is in
\* every state either unset or a complete batch of the registry with a
\* timestamp: no partially applied refresh is reachable.
C13_CancelLeavesCacheWhole ==
    /\ [][(stopping' /\ (~stopping \/ pc'[Scheduler] # pc[Scheduler]))
            => (cache' = cache /\ cache_time' = cache_time)]_vars
    /\ [](\/ cache = <<>> /\ cache_time = None
          \/ BatchOfRegistry(cache) /\ cache_time # None)

\* the scheduler was cancelled in the middle of a refresh, after an earlier
\* run had populated the cache
C13_Witness ==
    /\ pc[Scheduler] = "cancelled"
    /\ ev.what = "cancelled" /\ ev.run > 0
    /\ cache # <<>>

\* C14: the scheduler loop runs for the lifetime of the process unless it is
\* cancelled: whatever the probes of earlier cycles ended with, the loop is
\* sleeping or checking, or it has been cancelled.
C14_SchedulerLoopNeverEnds ==
    pc[Scheduler] \in {"sleep", "gather", "raised", "raising", "cancelled"}

\* C16: with an empty registry every call of check_all, forced or not,
\* returns an empty batch, starts no run and no probe, and raises nothing;
\* nothing is cached.
C16_EmptyRegistryReturnsEmpty ==
    services = <<>> =>
        /\ runs = 0
        /\ \A t \in Tasks :
              pc[t] \notin {"gather", "raised", "raising"} /\ pending[t] = {}
        /\ orphans = 0
        /\ ev.what \in {"none", "empty", "cancelled"}
        /\ ev.batch = <<>>
        /\ pc[Scheduler] # "dead"
        /\ cache = <<>>

\* a forced call on the empty registry has returned the empty batch
C16_Witness ==
    /\ services = <<>>
    /\ ev.what = "empty" /\ ev.force /\ ev.batch = <<>>

\* C18: a cache replacement never installs the batch of a run that started
\* before the run whose batch it overwrites: the run whose batch is cached
\* never goes back to an earlier-started run.
C18_CacheHoldsLatestRun == [][cache_run' >= cache_run]_vars

\* C19: the cache timestamp is absent exactly when the cached batch is
\* empty; every step that changes the batch or the timestamp leaves both
\* set, and no step clears a populated cache.
C19_CacheTimeIffBatch ==
    /\ [](cache_time = None <=> cache = <<>>)
    /\ [][(cache' # cache \/ cache_time' # cache_time)
            => (cache' # <<>> /\ cache_time' # None)]_vars
    /\ [][cache # <<>> => (cache' # <<>> /\ cache_time' # None)]_vars

\* a populated cache has served a hit after the scheduler was cancelled
C19_Witness ==
    /\ cache # <<>> /\ cache_time # None
    /\ pc[Scheduler] = "cancelled"
    /\ ev.what = "cached"

\* C12: every result check_service returns is consistent with the outcome of
\* its request: is_healthy holds exactly for a response with status below
\* 400; a response gives its status code and no error message; a timeout
\* gives no status code and the message "Connection timeout"; any other
\* connection failure gives no status code and an error message; and an
\* unhealthy result has exactly one of status code and error message.
C12_ResultMatchesOutcome ==
    (applied.fn = "check_service" /\ ~applied.raised) =>
        LET o == applied.outcome
            r == applied.result[1]
        IN  /\ r.service_name = applied.name
            /\ r.is_healthy <=> (o.kind = "response" /\ o.status < 400)
            /\ o.kind = "response" =>
                  r.status_code = Some(o.status) /\ r.error_message = None
            /\ o.kind = "timeout" =>
                  /\ r.status_code = None
                  /\ r.error_message = Some("Connection timeout")
            /\ o.kind = "client_error" =>
                  r.status_code = None /\ r.error_message # None
            /\ ~r.is_healthy =>
                  (r.status_code # None) # (r.error_message # None)

\* check_service has returned an unhealthy result for a response with
\* status 400
C12_Witness ==
    /\ applied.fn = "check_service" /\ ~applied.raised
    /\ applied.outcome.kind = "response" /\ applied.outcome.status = 400
    /\ ~applied.result[1].is_healthy

RECURSIVE Split(_)
\* the lines of a text: text.split("\n")
Split(text) ==
    IF \A k \in 1..Len(text) : text[k].kind # "nl" THEN <<text>>
    ELSE LET k == CHOOSE k \in 1..Len(text) :
                      /\ text[k].kind = "nl"
                      /\ \A j \in 1..(k - 1) : text[j].kind # "nl"
         IN  <<SubSeq(text, 1, k - 1)>> \o Split(SubSeq(text, k + 1, Len(text)))

\* a data line of the series: metric{service="name"} value
IsDataLine(line, metric) ==
    /\ Len(line) = 4
    /\ line[1].kind = "lit" /\ line[1].text = metric
    /\ line[2].kind = "name"
    /\ line[3].kind = "lit" /\ line[3].text = "\"} "
    /\ line[4].kind = "num"
IsUpLine(line) == IsDataLine(line, "service_up{service=\"")
IsResponseTimeLine(line) == IsDataLine(line, "service_response_time_ms{service=\"")

\* C17: for every batch the structured view reports total = number of
\* results, healthy = number of healthy results and unhealthy = total -
\* healthy, and the text view has, in batch order, exactly one service_up
\* line per result, with value 1 iff the result is healthy and else 0, and
\* one service_response_time_ms line per result; an empty batch gives three
\* zeros and no data line.
C17_ViewsMatchBatch ==
    /\ applied.fn = "get_services" =>
          LET b == applied.batch
              v == applied.response
          IN  /\ v.services = b
              /\ v.total = Len(b)
              /\ v.healthy = Cardinality({i \in 1..Len(b) : b[i].is_healthy})
              /\ v.unhealthy = v.total - v.healthy
              /\ Len(b) = 0 => (v.total = 0 /\ v.healthy = 0 /\ v.unhealthy = 0)
    /\ applied.fn = "prometheus_metrics" =>
          LET b == applied.batch
              lines == Split(applied.text)
              up == SelectSeq(lines, IsUpLine)
              rt == SelectSeq(lines, IsResponseTimeLine)
          IN  /\ Len(up) = Len(b) /\ Len(rt) = Len(b)
              /\ Len(lines) = 5 + Len(up) + Len(rt)
              /\ \A i \in 1..Len(b) :
                    /\ up[i][2].name = b[i].service_name
                    /\ up[i][4].value = (IF b[i].is_healthy THEN 1 ELSE 0)
                    /\ rt[i][2].name = b[i].service_name
                    /\ rt[i][4].value = b[i].response_time_ms

\* the text view was rendered for a batch of two results whose names are
\* not in alphabetical order: an unhealthy one that got a response, then a
\* healthy one
C17_Witness ==
    /\ applied.fn = "prometheus_metrics"
    /\ Len(applied.batch) = 2
    /\ applied.batch[1].service_name > applied.batch[2].service_name
    /\ ~applied.batch[1].is_healthy /\ applied.batch[1].status_code # None
    /\ applied.batch[2].is_healthy

\* C15: every call of check_all that has started its probes eventually
\* ends: each pending probe ends at the latest by its timeout, the call
\* resumes once its last probe has ended or one of them has raised, and it
\* waits for no other call; the probes a failed call leaves behind end too.
C15_EveryCallEnds ==
    /\ \A t \in Tasks :
          (pc[t] \in {"gather", "raised", "raising"})
              ~> (pc[t] \notin {"gather", "raised", "raising"})
    /\ (orphans > 0) ~> (orphans = 0)

\* two calls are suspended in gather at the same time, each with a probe
\* still pending
C15_Witness ==
    /\ pc[Scheduler] = "gather" /\ pending[Scheduler] # {}
    /\ pc[1] = "gather" /\ pending[1] # {}

====
